---- MODULE Spec2Model ----
(***************************************************************************)
(* raster-tilecutter: the pixel encoder (tilecutter/png.py, rgb.py), the   *)
(* indexed raster builder (tilecutter/raster.py), the tile sampler         *)
(* (tilecutter/tiles.py) and the two pyramid emitters (tilecutter/disk.py, *)
(* tilecutter/mbtiles.py).                                                 *)
(*                                                                         *)
(* Conventions.  A numpy array is its flattened sequence of cells; a       *)
(* masked array is [data, mask] with the hidden data of a masked cell 0.   *)
(* An optional value (Python None) is a sequence: <<>> is None and <<v>>   *)
(* is the value v.  Integers are below 2^31.  Byte order of the host is    *)
(* little-endian (the only order numpy wheels are published for).          *)
(***************************************************************************)
EXTENDS Integers, Sequences, FiniteSets, TLC

VARIABLES
    pc,        \* position of the call being modelled: "call", "done", or a pyramid step
    numpy,     \* which numpy is installed: "legacy" (1.x, wraps) or "strict" (2.x, raises)
    args,      \* arguments of the call
    ret,       \* what the call returned or raised
    zoom,      \* read_tiles: the zoom level of the loop
    queue,     \* read_tiles: the tiles of this zoom level not read yet
    cur,       \* the (tile, data) pair read_tiles yielded last
    rendered,  \* the tiles whose data was handed to the tile renderer, in order
    writes     \* the sink: what was written, in order

vars == <<pc, numpy, args, ret, zoom, queue, cur, rendered, writes>>

pyramid == <<zoom, queue, cur, rendered, writes>>

\* ---------------------------------------------------------------- bounds
MaxCells == 2

\* tile_size of the runs explored (256 by default in the program)
TileSize == 2

\* ---------------------------------------------------------------- helpers
None == <<>>
Some(v) == <<v>>
Idle == [fn |-> "idle"]

Pow2(n) == 2 ^ n

RECURSIVE SeqMax(_)
SeqMax(s) == IF Len(s) = 1 THEN s[1]
             ELSE LET m == SeqMax(Tail(s)) IN IF s[1] > m THEN s[1] ELSE m

NumpyBuilds == {"legacy", "strict"}

Raise(err) == [status |-> "raise", error |-> err]

\* ------------------------------------------------------- masked arrays
\* numpy.ma.is_masked: some cell is masked
is_masked(arr) == \E i \in 1..Len(arr.mask) : arr.mask[i]

Unmasked(arr) == SelectSeq([i \in 1..Len(arr.data) |->
                               IF arr.mask[i] THEN -1 ELSE arr.data[i]],
                           LAMBDA v : v >= 0)

\* arr.max(): the largest unmasked value
ArrMax(arr) == SeqMax(Unmasked(arr))

\* Conversion of a Python int to an unsigned element of `bits` bits: numpy 1.x
\* wraps an out-of-range value, numpy 2.x refuses it.
Fits(v, bits) == bits = 32 \/ v < Pow2(bits)

ToElement(v, bits, build) ==
    IF Fits(v, bits) THEN [status |-> "ok", value |-> v]
    ELSE IF build = "legacy" THEN [status |-> "ok", value |-> v % Pow2(bits)]
    ELSE Raise("OverflowError")

\* MaskedArray.filled(fill_value): the fill value is first cast to the array's dtype
Filled(arr, fill_value, build) ==
    LET e == ToElement(fill_value, arr.bits, build) IN
    IF e.status = "raise" THEN Raise("TypeError")
    ELSE [status |-> "ok",
          arr |-> [data |-> [i \in 1..Len(arr.data) |->
                               IF arr.mask[i] THEN e.value ELSE arr.data[i]],
                   mask |-> [i \in 1..Len(arr.data) |-> FALSE],
                   bits |-> arr.bits]]

\* arr.astype("uint8")
AsUint8(arr) == [data |-> [i \in 1..Len(arr.data) |-> arr.data[i] % 256],
                 mask |-> arr.mask, bits |-> 8]

\* ------------------------------------------------------------- rgb.py
\* arr.astype("uint32").view("uint8"): the four bytes of a value, least significant first
ViewUint8(v) == [i \in 1..4 |-> (v \div Pow2(8 * (i - 1))) % 256]

\* the triple without the flip of the innermost axis
to_rgb_array_bgr(v) == SubSeq(ViewUint8(v), 1, 3)

to_rgb_array(v) ==
    LET bgr == SubSeq(ViewUint8(v), 1, 3)
    IN  [i \in 1..3 |-> bgr[4 - i]]

\* ------------------------------------------------------------- png.py
MAX_VALUE(t) == CASE t = "P" -> 255
                  [] t = "L" -> 255
                  [] t = "RGB" -> 16777215
                  [] t = "RGBA" -> 65536 * 65536 - 1

\* rasterio.dtypes.get_minimum_dtype for non-negative integers
get_minimum_dtype(arr) ==
    LET m == ArrMax(arr) IN
    IF m <= 255 THEN "uint8" ELSE IF m <= 65535 THEN "uint16" ELSE "uint32"

get_smallest_image_type(arr) ==
    LET target_dtype == get_minimum_dtype(arr) IN
    IF target_dtype = "uint8" THEN "L"
    ELSE IF target_dtype = "uint16" THEN "RGB"
    ELSE IF ArrMax(arr) <= MAX_VALUE("RGB") THEN "RGB"
    ELSE "RGBA"

\* Image.putpalette: Pillow refuses a palette of more than 256 entries
PutPaletteOk(entries) == entries <= 256

\* arr[arr == nodata] = nodata_index, on an unmasked array
AssignWhereEqual(arr, nodata, e) ==
    [arr EXCEPT !.data = [i \in 1..Len(arr.data) |->
                             IF arr.data[i] = nodata THEN e ELSE arr.data[i]]]

AppendNodata_dropped(palette) == palette

\* palette = np.append(palette, (0, 0, 0)): one more entry
AppendNodata(palette) == palette + 1

\* palette is the number of (r, g, b) entries: the colours are not read here
to_paletted_png(arr, palette, nodata, build) ==
    LET needs == is_masked(arr) \/ nodata # None
        nodata_index == palette
        palette2 == IF needs THEN AppendNodata(palette) ELSE palette
        filled == IF ~needs THEN [status |-> "ok", arr |-> arr]
                  ELSE IF is_masked(arr) THEN Filled(arr, nodata_index, build)
                  ELSE LET e == ToElement(nodata_index, arr.bits, build) IN
                       IF e.status = "raise" THEN e
                       ELSE [status |-> "ok",
                             arr |-> AssignWhereEqual(arr, nodata[1], e.value)]
    IN  IF filled.status = "raise" THEN filled
        ELSE IF ~PutPaletteOk(palette2) THEN Raise("ValueError")
        ELSE [status |-> "ok", image_type |-> "P",
              pixels |-> [i \in 1..Len(arr.data) |-> <<filled.arr.data[i]>>],
              palette |-> palette2,
              transparency |-> IF needs THEN Some(nodata_index) ELSE None]

ImageTypes == {"P", "L", "RGB", "RGBA"}

\* arr.max() + 1 in the "P" branch: the sum of a uint8 scalar and 1 wraps under numpy 2.x
MaxPlusOne(arr, build) ==
    IF arr.bits = 8 /\ build = "strict" THEN (ArrMax(arr) + 1) % 256 ELSE ArrMax(arr) + 1

\* the nodata check made for every array whose largest value reaches the maximum of
\* the image type, masked or not
FillNodata_unmasked_too(arr, image_type, build) ==
    IF ArrMax(arr) < MAX_VALUE(image_type)
    THEN IF is_masked(arr) THEN Filled(arr, MAX_VALUE(image_type), build)
         ELSE [status |-> "ok", arr |-> arr]
    ELSE Raise("ValueError")

\* if is_masked(arr): fill with the maximum of the image type, or raise when the
\* data already reaches it
FillNodata(arr, image_type, build) ==
    IF is_masked(arr)
    THEN LET image_type_max == MAX_VALUE(image_type) IN
         IF ArrMax(arr) < image_type_max
         THEN Filled(arr, image_type_max, build)
         ELSE Raise("ValueError")
    ELSE [status |-> "ok", arr |-> arr]

to_smallest_png(arr, image_type, build) ==
    LET it == IF image_type = None THEN get_smallest_image_type(arr) ELSE image_type[1] IN
    IF it \notin ImageTypes THEN Raise("ValueError")
    ELSE IF it = "P" THEN to_paletted_png(AsUint8(arr), MaxPlusOne(arr, build), None, build)
    ELSE IF it = "RGBA" THEN Raise("ValueError")
    ELSE
      LET filled == FillNodata(arr, it, build) IN
      IF filled.status = "raise" THEN filled
      ELSE [status |-> "ok", image_type |-> it,
            pixels |-> [i \in 1..Len(arr.data) |->
                          IF it = "L" THEN <<filled.arr.data[i] % 256>>
                          ELSE to_rgb_array(filled.arr.data[i])],
            palette |-> 0, transparency |-> None]

\* ------------------------------------------------- encoder: call inputs
SampleValues == {0, 1, 254, 255, 256, 65534, 65535, 65536, 66051,
                 16777214, 16777215, 16777216}

DtypeBits == {8, 16, 32}

ValuesOf(bits) == {v \in SampleValues : Fits(v, bits)}

\* masked arrays of n cells of the dtype, with cell values from vals
ArraysOfLen(vals, bits, n) ==
    { [data |-> [i \in 1..n |-> IF m[i] THEN 0 ELSE d[i]], mask |-> m, bits |-> bits] :
        d \in [1..n -> vals], m \in [1..n -> BOOLEAN] }

Arrays(vals, bits) == UNION { ArraysOfLen(vals, bits, n) : n \in 1..MaxCells }

\* to_smallest_png takes the maximum of the array: at least one cell is unmasked
SmallestPngArgs ==
    { [fn |-> "to_smallest_png", arr |-> a, image_type |-> t] :
        a \in { b \in UNION { Arrays(ValuesOf(bits), bits) : bits \in DtypeBits } :
                  \E i \in 1..Len(b.mask) : ~b.mask[i] },
        t \in {None} \cup { Some(x) : x \in ImageTypes \cup {"CMYK"} } }

PaletteSizes == {1, 2, 255, 256}

PaletteValues == {0, 1, 2, 255}

PalettedPngArgs ==
    { [fn |-> "to_paletted_png", arr |-> a, palette |-> p, nodata |-> nd] :
        a \in Arrays(PaletteValues, 8),
        p \in PaletteSizes,
        nd \in {None} \cup { Some(v) : v \in PaletteValues } }

\* ----------------------------------------------------------- raster.py
\* for index, value in enumerate(values): out_data[data == value] = index
\* followed for one pixel v of data: every iteration whose value equals v overwrites
\* the pixel of out_data, so the last such iteration decides it
IndexLoop(nodata_value, v, values) ==
    LET hits == {k \in 1..Len(values) : values[k] = v}
    IN  IF hits = {} THEN nodata_value
        ELSE (CHOOSE k \in hits : \A j \in hits : j <= k) - 1

to_indexed_tif_limit(values) == Len(values) > 255

\* count is src.count, data is src.read(1), nodata is src.nodata (not read by the builder)
to_indexed_tif(count, data, nodata, values) ==
    LET nodata_value == Len(values) IN
    IF to_indexed_tif_limit(values) THEN Raise("ValueError")
    ELSE IF count > 1 THEN Raise("ValueError")
    ELSE [status |-> "ok",
          out_data |-> [p \in 1..Len(data) |-> IndexLoop(nodata_value, data[p], values)],
          nodata |-> Some(nodata_value),
          dtype |-> "uint8"]

\* ------------------------------------------- raster builder: call inputs
SourceValues == {0, 1, 7, 255}

Range(n) == [i \in 1..n |-> i - 1]

ValueLists == {<<>>, <<0>>, <<1>>, <<0, 1>>, <<1, 0>>, <<1, 7>>, <<7, 255>>, <<1, 1>>}
                \cup {Range(254), Range(255), Range(256)}

IndexedTifArgs ==
    { [fn |-> "to_indexed_tif", count |-> c, data |-> d, nodata |-> nd, values |-> vs] :
        c \in {1, 2},
        d \in UNION { [1..n -> SourceValues] : n \in 1..MaxCells },
        nd \in {None, Some(0), Some(255)},
        vs \in ValueLists }

\* ------------------------------------------------------------ tiles.py
\* the zoom levels of the runs explored
Zooms == {0, 1}

DeepestZoom == CHOOSE z \in Zooms : \A y \in Zooms : y <= z

\* The mercator square is World units wide: one unit is one pixel of the deepest zoom.
World == TileSize * Pow2(DeepestZoom)

\* side of a tile of zoom z, in units
Span(z) == World \div Pow2(z)

\* mercantile.xy_bounds(tile): y grows to the north, tile rows are counted from the north
xy_bounds(tile) ==
    [left   |-> tile.x * Span(tile.z),
     bottom |-> World - (tile.y + 1) * Span(tile.z),
     right  |-> (tile.x + 1) * Span(tile.z),
     top    |-> World - tile.y * Span(tile.z)]

\* int(round(n / d, 0)) for d > 0: Python rounds a tie to the even neighbour
Round(n, d) ==
    LET q == n \div d
        r == n % d
    IN  IF 2 * r < d THEN q
        ELSE IF 2 * r > d THEN q + 1
        ELSE IF q % 2 = 0 THEN q ELSE q + 1

Max0(a) == IF a > 0 THEN a ELSE 0

\* The four offsets, in tile pixels.  x_res = y_res = (side of the tile) / tile_size,
\* since dst_transform is the window transform scaled by window size / tile_size.
Offsets(vrt_bounds, tile_bounds, tile_size) ==
    LET side == tile_bounds.right - tile_bounds.left IN
    [left   |-> Max0(Round((vrt_bounds.left - tile_bounds.left) * tile_size, side)),
     right  |-> Max0(Round((tile_bounds.right - vrt_bounds.right) * tile_size, side)),
     bottom |-> Max0(Round((vrt_bounds.bottom - tile_bounds.bottom) * tile_size, side)),
     top    |-> Max0(Round((tile_bounds.top - vrt_bounds.top) * tile_size, side))]

\* the value a cell takes where the raster has nothing to show
FillValue(vrt) == IF vrt.nodata = None THEN 0 ELSE vrt.nodata[1]

\* vrt.dtypes[0]: the "high" raster is uint32, the others uint8
SceneBits(scene) == IF scene = "high" THEN 32 ELSE 8

\* The raster behind the view, by scene: the value at the unit square (col, row),
\* row counted from the north.  "ramp" gives every unit square a value of its own;
\* "high" is the ramp with one cell, in the north-east corner, too large for any image.
SceneValue(vrt, col, row) ==
    LET inside == /\ col >= vrt.bounds.left /\ col < vrt.bounds.right
                  /\ World - row > vrt.bounds.bottom /\ World - row <= vrt.bounds.top
        ramp   == 1 + col + World * row
    IN  IF ~inside \/ vrt.scene = "empty" THEN FillValue(vrt)
        ELSE IF vrt.scene = "hole" /\ 2 * col < World THEN FillValue(vrt)
        ELSE IF vrt.scene = "high" /\ col = World - 1 /\ row = 0 THEN 16777216
        ELSE ramp

\* vrt.read(out_shape=(1, height, width), window=window): the view resamples the part
\* of the window it covers to height x width cells; cell (r, c) shows the unit square
\* under the centre of tile pixel (top_offset + r, left_offset + c).
ViewRead(vrt, tile_bounds, tile_size, offs, height, width) ==
    LET side == tile_bounds.right - tile_bounds.left
        \* twice the distance of the centre of a pixel from the tile's west / north edge
        centre2(i) == ((2 * i - 1) * side) \div tile_size
    IN  [r \in 1..height |-> [c \in 1..width |->
            SceneValue(vrt,
                       (2 * tile_bounds.left + centre2(offs.left + c)) \div 2,
                       (2 * (World - tile_bounds.top) + centre2(offs.top + r)) \div 2)]]

\* np.all(data == nodata) for a 2-D array: comparing with None is False in every cell
AllNodata(data, nodata) ==
    \A r \in 1..Len(data) : \A c \in 1..Len(data[r]) :
        nodata # None /\ data[r][c] = nodata[1]

\* out[0, top : top + h, left : left + w] = data, pasted with top and left exchanged
PasteTransposed(out, top, left, data) ==
    [r \in 1..Len(out) |-> [c \in 1..Len(out[r]) |->
        IF r > left /\ r <= left + Len(data) /\ c > top /\ c <= top + Len(data[1])
        THEN data[r - left][c - top] ELSE out[r][c]]]

\* out[0, top : top + h, left : left + w] = data (the slice lies within out)
Paste(out, top, left, data) ==
    [r \in 1..Len(out) |-> [c \in 1..Len(out[r]) |->
        IF r > top /\ r <= top + Len(data) /\ c > left /\ c <= left + Len(data[1])
        THEN data[r - top][c - left] ELSE out[r][c]]]

\* _read_tile(vrt, tile, tile_size): data is None (the all-nodata sentinel) or an array
read_tile(vrt, tile, tile_size) ==
    LET tile_bounds == xy_bounds(tile)
        offs   == Offsets(vrt.bounds, tile_bounds, tile_size)
        width  == tile_size - offs.left - offs.right
        height == tile_size - offs.top - offs.bottom
        data   == ViewRead(vrt, tile_bounds, tile_size, offs, height, width)
        locals == [left_offset |-> offs.left, right_offset |-> offs.right,
                   top_offset |-> offs.top, bottom_offset |-> offs.bottom,
                   width |-> width, height |-> height]
    IN  IF (width <= 0 \/ height <= 0) /\ vrt.empty_read = "raise"
        THEN Raise("RasterioIOError")
        ELSE IF width <= 0 \/ height <= 0 \/ AllNodata(data, vrt.nodata)
        THEN [status |-> "ok", data |-> None, read |-> data, locals |-> locals]
        ELSE IF width # tile_size \/ height # tile_size
        THEN IF vrt.nodata = None
             THEN Raise("TypeError")
             ELSE [status |-> "ok",
                   data |-> Some(Paste([r \in 1..tile_size |->
                                          [c \in 1..tile_size |-> vrt.nodata[1]]],
                                       offs.top, offs.left, data)),
                   read |-> data, locals |-> locals]
        ELSE [status |-> "ok", data |-> Some(data), read |-> data, locals |-> locals]

\* mercantile.tiles(*bounds, zoom): columns west to east, rows north to south within
\* a column; the east and south edges are pulled in by an epsilon
tiles(bounds, z) ==
    LET x0 == bounds.left \div Span(z)
        x1 == (bounds.right - 1) \div Span(z)
        y0 == (World - bounds.top) \div Span(z)
        y1 == (World - bounds.bottom - 1) \div Span(z)
        ny == y1 - y0 + 1
    IN  [i \in 1..((x1 - x0 + 1) * ny) |->
            [z |-> z, x |-> x0 + ((i - 1) \div ny), y |-> y0 + ((i - 1) % ny)]]

\* -------------------------------------------------- sampler: call inputs
Scenes == {"ramp", "hole", "empty", "high"}

NodataValues == {None, Some(0), Some(255)}

AllBounds ==
    { bd \in [left : 0..World, bottom : 0..World, right : 0..World, top : 0..World] :
        bd.left < bd.right /\ bd.bottom < bd.top }

\* the view: bounds of the warped raster, its nodata, what it shows, and what the
\* raster library does with a read of no cells
Views(boundsSet) ==
    { [bounds |-> bd, nodata |-> nd, scene |-> sc, empty_read |-> er] :
        bd \in boundsSet, nd \in NodataValues, sc \in Scenes, er \in {"raise", "empty"} }

SeqToSet(s) == { s[i] : i \in 1..Len(s) }

\* ------------------------------------------------- calls: specification
CallsInit ==
    /\ pc = "call"
    /\ numpy \in NumpyBuilds
    /\ args \in SmallestPngArgs \cup PalettedPngArgs \cup IndexedTifArgs
    /\ ret = Idle
    /\ zoom = 0 /\ queue = <<>> /\ cur = Idle /\ rendered = <<>> /\ writes = <<>>

CallToSmallestPng ==
    /\ pc = "call"
    /\ args.fn = "to_smallest_png"
    /\ ret' = to_smallest_png(args.arr, args.image_type, numpy)
    /\ pc' = "done"
    /\ UNCHANGED <<numpy, args, pyramid>>

CallToPalettedPng ==
    /\ pc = "call"
    /\ args.fn = "to_paletted_png"
    /\ ret' = to_paletted_png(args.arr, args.palette, args.nodata, numpy)
    /\ pc' = "done"
    /\ UNCHANGED <<numpy, args, pyramid>>

CallToIndexedTif ==
    /\ pc = "call"
    /\ args.fn = "to_indexed_tif"
    /\ ret' = to_indexed_tif(args.count, args.data, args.nodata, args.values)
    /\ pc' = "done"
    /\ UNCHANGED <<numpy, args, pyramid>>

CallsNext == CallToSmallestPng \/ CallToPalettedPng \/ CallToIndexedTif

SpecCalls == CallsInit /\ [][CallsNext]_vars

\* ---------------------------------------------- sampler: specification
\* a view and one of the tiles read_tiles takes from it
SamplerInit ==
    /\ pc = "call"
    /\ numpy \in NumpyBuilds
    /\ \E v \in Views(AllBounds), z \in Zooms :
          \E i \in 1..Len(tiles(v.bounds, z)) :
              args = [fn |-> "_read_tile", vrt |-> v, tile |-> tiles(v.bounds, z)[i],
                      tile_size |-> TileSize]
    /\ ret = Idle
    /\ zoom = 0 /\ queue = <<>> /\ cur = Idle /\ rendered = <<>> /\ writes = <<>>

CallReadTile ==
    /\ pc = "call"
    /\ args.fn = "_read_tile"
    /\ ret' = read_tile(args.vrt, args.tile, args.tile_size)
    /\ pc' = "done"
    /\ UNCHANGED <<numpy, args, pyramid>>

SamplerNext == CallReadTile

SpecSampler == SamplerInit /\ [][SamplerNext]_vars

\* ------------------------------------------------ disk.py, mbtiles.py
\* np.all(data == src.nodata) in the emitters, where data may be None: None equals
\* only None, and an array compared with None is False in every cell
EmitterAllNodata(data, nodata) ==
    IF data = None THEN nodata = None ELSE AllNodata(data[1], nodata)

\* the same test on a tile given cell by cell
EmitterAllNodata1(data, nodata) ==
    IF data = None THEN nodata = None
    ELSE \A i \in 1..Len(data[1]) : nodata # None /\ data[1][i] = nodata[1]

Flatten(rows) ==
    [i \in 1..(Len(rows) * Len(rows[1])) |->
        rows[1 + ((i - 1) \div Len(rows[1]))][1 + ((i - 1) % Len(rows[1]))]]

\* tile_renderer(data), with the default renderer to_smallest_png: the sentinel None
\* has no dtype
tile_renderer(data, bits, build) ==
    IF data = None THEN Raise("AttributeError")
    ELSE LET flat == Flatten(data[1]) IN
         to_smallest_png([data |-> flat, mask |-> [i \in 1..Len(flat) |-> FALSE],
                          bits |-> bits], None, build)

\* the body of the loop of tif_to_tiles for one (tile, data): the file is opened for
\* writing before the renderer runs, so a renderer that raises leaves it empty
disk_body(tile, data, nodata, bits, build) ==
    IF EmitterAllNodata(data, nodata)
    THEN [status |-> "ok", rendered |-> <<>>, writes |-> <<>>]
    ELSE LET png == tile_renderer(data, bits, build)
             path == <<tile.z, tile.x, tile.y>>
         IN  IF png.status = "raise"
             THEN [status |-> "raise", error |-> png.error, rendered |-> <<tile>>,
                   writes |-> <<[key |-> path, tile |-> tile, content |-> "empty"]>>]
             ELSE [status |-> "ok", rendered |-> <<tile>>,
                   writes |-> <<[key |-> path, tile |-> tile, content |-> "png"]>>]

\* the row counted from the other edge, but one row too far
flip_y_off_by_one(z, y) == Pow2(z) - y

\* tiley = int(math.pow(2, tile.z)) - tile.y - 1
flip_y(z, y) == Pow2(z) - y - 1

\* the body of the loop of tif_to_mbtiles for one (tile, data)
mbtiles_body(tile, data, nodata, bits, build) ==
    IF data # None /\ ~EmitterAllNodata(data, nodata)
    THEN LET png == tile_renderer(data, bits, build)
             tiley == flip_y(tile.z, tile.y)
         IN  IF png.status = "raise"
             THEN [status |-> "raise", error |-> png.error, rendered |-> <<tile>>,
                   writes |-> <<>>]
             ELSE [status |-> "ok", rendered |-> <<tile>>,
                   writes |-> <<[key |-> <<tile.z, tile.x, tiley>>, tile |-> tile,
                                 content |-> "png"]>>]
    ELSE [status |-> "ok", rendered |-> <<>>, writes |-> <<>>]

\* ------------------------------------------------ pyramid: run inputs
\* bounds of the warped raster, each edge on the whole world, on a tile edge of the
\* deepest zoom, or one unit inside it
Edges1D == {<<0, World>>, <<1, World>>, <<1, World - 1>>, <<0, TileSize>>,
            <<TileSize, World - 1>>}

PyramidBounds ==
    { [left |-> h[1], bottom |-> v[1], right |-> h[2], top |-> v[2]] :
        h \in Edges1D, v \in Edges1D }

PyramidArgs ==
    { [fn |-> f, src |-> v, min_zoom |-> lo, max_zoom |-> hi, tile_size |-> TileSize] :
        f \in {"tif_to_tiles", "tif_to_mbtiles"},
        v \in Views(PyramidBounds),
        lo \in Zooms, hi \in Zooms }

\* ------------------------------------------------ pyramid: specification
PyramidInit ==
    /\ pc = "zoom"
    /\ numpy \in NumpyBuilds
    /\ args \in PyramidArgs
    /\ ret = Idle
    /\ zoom = args.min_zoom
    /\ queue = <<>> /\ cur = Idle /\ rendered = <<>> /\ writes = <<>>

\* read_tiles: for zoom in range(min_zoom, max_zoom + 1), and the end of the run
ZoomLoop ==
    /\ pc = "zoom"
    /\ IF zoom > args.max_zoom
       THEN /\ pc' = "done"
            /\ ret' = [status |-> "ok"]
            /\ UNCHANGED queue
       ELSE /\ queue' = tiles(args.src.bounds, zoom)
            /\ pc' = "tile"
            /\ UNCHANGED ret
    /\ UNCHANGED <<numpy, args, zoom, cur, rendered, writes>>

\* read_tiles: for tile in tiles: data = _read_tile(vrt, tile, tile_size); yield
ReadNextTile ==
    /\ pc = "tile"
    /\ IF queue = <<>>
       THEN /\ zoom' = zoom + 1
            /\ pc' = "zoom"
            /\ UNCHANGED <<ret, queue, cur>>
       ELSE LET r == read_tile(args.src, Head(queue), args.tile_size) IN
            /\ queue' = Tail(queue)
            /\ zoom' = zoom
            /\ IF r.status = "raise"
               THEN pc' = "done" /\ ret' = r /\ UNCHANGED cur
               ELSE /\ pc' = "body"
                    /\ cur' = [tile |-> Head(queue), data |-> r.data]
                    /\ UNCHANGED ret
    /\ UNCHANGED <<numpy, args, rendered, writes>>

\* the loop body's exception noted and the loop carried on with the next tile
EmitterStep_continue(r) ==
    /\ rendered' = rendered \o r.rendered
    /\ writes' = writes \o r.writes
    /\ pc' = "tile"
    /\ IF r.status = "raise" THEN ret' = Raise(r.error) ELSE UNCHANGED ret
    /\ UNCHANGED <<numpy, args, zoom, queue, cur>>

\* what the loop body did, and an exception of the body leaving the loop and the run
EmitterStep(r) ==
    /\ rendered' = rendered \o r.rendered
    /\ writes' = writes \o r.writes
    /\ IF r.status = "raise"
       THEN pc' = "done" /\ ret' = Raise(r.error)
       ELSE pc' = "tile" /\ UNCHANGED ret
    /\ UNCHANGED <<numpy, args, zoom, queue, cur>>

DiskBody ==
    /\ pc = "body"
    /\ args.fn = "tif_to_tiles"
    /\ EmitterStep(disk_body(cur.tile, cur.data, args.src.nodata,
                             SceneBits(args.src.scene), numpy))

MbtilesBody ==
    /\ pc = "body"
    /\ args.fn = "tif_to_mbtiles"
    /\ EmitterStep(mbtiles_body(cur.tile, cur.data, args.src.nodata,
                                SceneBits(args.src.scene), numpy))

PyramidNext == ZoomLoop \/ ReadNextTile \/ DiskBody \/ MbtilesBody

SpecPyramid == PyramidInit /\ [][PyramidNext]_vars

\* ------------------------------------- disk.py, mbtiles.py: colormap paths
\* values = sorted(colormap.keys())
RECURSIVE sorted(_)
sorted(keys) ==
    IF keys = {} THEN <<>>
    ELSE LET m == CHOOSE k \in keys : \A j \in keys : k <= j
         IN  <<m>> \o sorted(keys \ {m})

\* np.unique(data[data != nodata]) / the unmasked values of src.read(1, masked=True)
unique_values(data, nodata) ==
    { data[i] : i \in { j \in 1..Len(data) : Some(data[j]) # nodata } }

\* the image converted to indexed unless its values are exactly the colormap's
needs_indexed_tif_unless_equal(data, nodata, values) ==
    unique_values(data, nodata) # SeqToSet(values)

\* if len(set(unique_values).difference(values)): convert the image to indexed
needs_indexed_tif(data, nodata, values) ==
    unique_values(data, nodata) \ SeqToSet(values) # {}

\* paletted_renderer = partial(to_paletted_png, palette=palette, nodata=src.nodata),
\* called on a tile of the indexed raster; the sentinel None is not an array
paletted_renderer(data, palette, nodata, build) ==
    IF data = None
    THEN Raise(IF nodata = None THEN "AttributeError" ELSE "TypeError")
    ELSE to_paletted_png([data |-> data[1], mask |-> [i \in 1..Len(data[1]) |-> FALSE],
                          bits |-> 8], palette, nodata, build)

\* _read_tile on the raster handed to the emitter, for a tile whose pixels are the
\* cells of the band: None when every cell is the nodata value of that raster
band_tile(data, nodata) ==
    IF \A i \in 1..Len(data) : nodata # None /\ data[i] = nodata[1]
    THEN None ELSE Some(data)

\* ------------------------------------------- colormap paths: run inputs
BandValues == {0, 1, 2, 7}

ColormapKeys == {{0}, {0, 1}, {1, 2}, {0, 1, 2}, {1, 7}}

ColormapArgs ==
    { [fn |-> f, count |-> c, data |-> d, nodata |-> nd, colormap |-> keys] :
        f \in {"render_tif_to_tiles", "render_tif_to_mbtiles"},
        c \in {1, 2},
        d \in UNION { [1..n -> BandValues] : n \in 1..MaxCells },
        nd \in NodataValues,
        keys \in ColormapKeys }

\* ------------------------------------------ colormap paths: specification
ColormapInit ==
    /\ pc = "inspect"
    /\ numpy \in NumpyBuilds
    /\ args \in ColormapArgs
    /\ ret = Idle
    /\ zoom = 0 /\ queue = <<>> /\ cur = Idle /\ rendered = <<>> /\ writes = <<>>

\* render_tif_to_tiles / render_tif_to_mbtiles up to the choice of indexedfilename:
\* cur is the raster the emitter will open
RenderTifInspect ==
    /\ pc = "inspect"
    /\ LET values == sorted(args.colormap) IN
       IF args.count > 1
       THEN pc' = "done" /\ ret' = Raise("ValueError") /\ UNCHANGED cur
       ELSE IF needs_indexed_tif(args.data, args.nodata, values)
       THEN LET r == to_indexed_tif(args.count, args.data, args.nodata, values) IN
            IF r.status = "raise"
            THEN pc' = "done" /\ ret' = r /\ UNCHANGED cur
            ELSE /\ cur' = [indexed |-> TRUE, data |-> r.out_data, nodata |-> r.nodata]
                 /\ pc' = "tiles" /\ UNCHANGED ret
       ELSE /\ cur' = [indexed |-> FALSE, data |-> args.data, nodata |-> args.nodata]
            /\ pc' = "tiles" /\ UNCHANGED ret
    /\ UNCHANGED <<numpy, args, zoom, queue, rendered, writes>>

\* the emitter's loop body, with the paletted renderer, for the tile of the band
RenderTifTile ==
    /\ pc = "tiles"
    /\ LET data == band_tile(cur.data, cur.nodata)
           palette == Len(sorted(args.colormap))
           skip == IF args.fn = "render_tif_to_mbtiles"
                   THEN ~(data # None /\ ~EmitterAllNodata1(data, cur.nodata))
                   ELSE EmitterAllNodata1(data, cur.nodata)
           png == paletted_renderer(data, palette, args.nodata, numpy)
       IN  IF skip THEN ret' = [status |-> "ok", written |-> FALSE]
           ELSE IF png.status = "raise" THEN ret' = png
           ELSE ret' = [status |-> "ok", written |-> TRUE, png |-> png]
    /\ pc' = "done"
    /\ UNCHANGED <<numpy, args, zoom, queue, cur, rendered, writes>>

ColormapNext == RenderTifInspect \/ RenderTifTile

SpecColormap == ColormapInit /\ [][ColormapNext]_vars

\* ======================================================== properties
Done(f) == pc = "done" /\ args.fn = f

\* the value an image pixel decodes to: one byte, or R, G, B most significant first
Decode(px) == IF Len(px) = 1 THEN px[1] ELSE px[1] * 65536 + px[2] * 256 + px[3]

\* the image type to_smallest_png works with: the argument, or the smallest that fits
ChosenType == IF args.image_type = None THEN get_smallest_image_type(args.arr)
              ELSE args.image_type[1]

NeedsNodataEntry == is_masked(args.arr) \/ args.nodata # None

\* C1: a tile _read_tile returns is tile_size x tile_size; when the read size differs
\* from tile_size, the cells read from the view fill exactly rows
\* [top_offset, top_offset + height) and columns [left_offset, left_offset + width)
\* and every other cell is the view's nodata value; when width = height = tile_size
\* the cells read are returned unchanged.
C1_PaddedTile ==
    (Done("_read_tile") /\ ret.status = "ok" /\ ret.data # None)
        => LET out  == ret.data[1]
               n    == args.tile_size
               top  == ret.locals.top_offset
               left == ret.locals.left_offset
               w    == ret.locals.width
               h    == ret.locals.height
           IN  /\ w = n - left - ret.locals.right_offset
               /\ h = n - top - ret.locals.bottom_offset
               /\ Len(out) = n
               /\ \A r \in 1..n : Len(out[r]) = n
               /\ IF w = n /\ h = n
                  THEN out = ret.read
                  ELSE \A r \in 1..n : \A c \in 1..n :
                          out[r][c] =
                              IF r > top /\ r <= top + h /\ c > left /\ c <= left + w
                              THEN ret.read[r - top][c - left]
                              ELSE args.vrt.nodata[1]

\* a tile padded at its north and west edges only, by different amounts
C1_Witness ==
    /\ Done("_read_tile") /\ ret.status = "ok" /\ ret.data # None
    /\ ret.locals.top_offset > 0 /\ ret.locals.left_offset = 0
    /\ ret.locals.width = args.tile_size /\ ret.locals.height < args.tile_size
    /\ args.vrt.scene = "ramp"

\* C2: in a run of either emitter, a tile whose sample is the all-nodata sentinel
\* (None) is neither handed to the tile renderer nor written.
C2_SentinelNeverRenderedNorWritten ==
    (args.fn \in {"tif_to_tiles", "tif_to_mbtiles"} /\ cur # Idle /\ cur.data = None)
        => /\ \A i \in 1..Len(rendered) : rendered[i] # cur.tile
           /\ \A i \in 1..Len(writes) : writes[i].tile # cur.tile

\* C3: every call of to_smallest_png, whatever image_type it is given, raises when
\* the array holds an unmasked value >= 2^24; no such value is encoded in fewer bits.
C3_HighValuesRaise ==
    (/\ Done("to_smallest_png")
     /\ \E i \in 1..Len(args.arr.data) :
           ~args.arr.mask[i] /\ args.arr.data[i] >= 16777216)
        => ret.status = "raise"

\* C4: in every 3-channel image to_smallest_png returns, a cell holding v in
\* 0..2^24-2 is the triple ((v >> 16) & 255, (v >> 8) & 255, v & 255), which decodes
\* back to v, whether the 3-channel type came from the 16-bit or the 32-bit branch.
C4_PackingMostSignificantFirst ==
    (Done("to_smallest_png") /\ ret.status = "ok" /\ ret.image_type = "RGB")
        => \A i \in 1..Len(args.arr.data) :
              LET v == args.arr.data[i] IN
              (~args.arr.mask[i] /\ v <= 16777214)
                 => /\ ret.pixels[i] = <<(v \div 65536) % 256, (v \div 256) % 256, v % 256>>
                    /\ ret.pixels[i][1] * 65536 + ret.pixels[i][2] * 256 + ret.pixels[i][3] = v

\* a value above 16 bits, with three different bytes, packed through the 32-bit branch
C4_Witness ==
    /\ Done("to_smallest_png") /\ args.image_type = None /\ ret.status = "ok"
    /\ get_minimum_dtype(args.arr) = "uint32"
    /\ \E i \in 1..Len(args.arr.data) :
          args.arr.data[i] = 66051 /\ ret.pixels[i] = <<1, 2, 3>>

\* a value packed through the 16-bit branch
C4_Witness16 ==
    /\ Done("to_smallest_png") /\ args.image_type = None /\ ret.status = "ok"
    /\ get_minimum_dtype(args.arr) = "uint16"
    /\ \E i \in 1..Len(args.arr.data) :
          args.arr.data[i] = 65534 /\ ret.pixels[i] = <<0, 255, 254>>

UnmaskedDefaultCall ==
    Done("to_smallest_png") /\ args.image_type = None /\ ~is_masked(args.arr)

GrayscaleExact ==
    /\ ret.status = "ok"
    /\ ret.image_type = "L"
    /\ \A i \in 1..Len(args.arr.data) : ret.pixels[i] = <<args.arr.data[i]>>

\* C5 as stated: an unmasked array with all values in 0..254 is encoded single-channel,
\* byte for value, and an unmasked array holding 255 makes to_smallest_png raise.
C5_Unmasked255Raises ==
    UnmaskedDefaultCall
        => /\ (\A i \in 1..Len(args.arr.data) : args.arr.data[i] <= 254) => GrayscaleExact
           /\ (\E i \in 1..Len(args.arr.data) : args.arr.data[i] = 255)
                 => ret.status = "raise"

\* C5 amended: an unmasked array with all values in 0..255 is encoded single-channel,
\* byte for value; 255 in an unmasked array is encoded as the byte 255, without a raise.
C5_UnmaskedGrayscaleExact ==
    (UnmaskedDefaultCall /\ \A i \in 1..Len(args.arr.data) : args.arr.data[i] <= 255)
        => GrayscaleExact

C5_Witness ==
    /\ UnmaskedDefaultCall
    /\ \E i \in 1..Len(args.arr.data) : args.arr.data[i] = 255
    /\ \A i \in 1..Len(args.arr.data) : args.arr.data[i] <= 255
    /\ ret.status = "ok" /\ ret.image_type = "L"

\* C6: given masked cells, to_smallest_png (choosing the image type itself) raises
\* when the largest unmasked value equals the maximum of the chosen single- or
\* 3-channel type; otherwise every masked cell is encoded as that maximum (255,
\* 2^24-1) and every unmasked cell as its value, for 8-, 16- and 32-bit arrays alike.
C6_MaskedCellsGetTypeMaximum ==
    (/\ Done("to_smallest_png") /\ args.image_type = None
     /\ is_masked(args.arr) /\ ChosenType \in {"L", "RGB"})
        => LET mx == MAX_VALUE(ChosenType) IN
           /\ ArrMax(args.arr) = mx => ret.status = "raise"
           /\ ArrMax(args.arr) < mx
                 => /\ ret.status = "ok"
                    /\ \A i \in 1..Len(args.arr.data) :
                          Decode(ret.pixels[i]) =
                              IF args.arr.mask[i] THEN mx ELSE args.arr.data[i]

\* C7: when to_paletted_png gets masked cells or a nodata value and a palette of N
\* entries, the image has N+1 palette entries and transparency index N, every cell
\* that is masked or equals nodata is index N, every other cell keeps its index.
C7_NodataCellsGetPaletteEnd ==
    (Done("to_paletted_png") /\ NeedsNodataEntry /\ ret.status = "ok")
        => /\ ret.palette = args.palette + 1
           /\ ret.transparency = Some(args.palette)
           /\ \A i \in 1..Len(args.arr.data) :
                 ret.pixels[i] =
                     IF \/ args.arr.mask[i]
                        \/ (args.nodata # None /\ args.arr.data[i] = args.nodata[1])
                     THEN <<args.palette>>
                     ELSE <<args.arr.data[i]>>

\* C8: to_paletted_png raises when the palette has 256 entries and a no-data entry
\* must be appended; an image it returns never has a transparency index above 255.
C8_PaletteCeiling ==
    Done("to_paletted_png")
        => /\ (NeedsNodataEntry /\ args.palette >= 256) => ret.status = "raise"
           /\ (ret.status = "ok" /\ ret.transparency # None) => ret.transparency[1] <= 255

C8_Witness ==
    /\ Done("to_paletted_png") /\ NeedsNodataEntry
    /\ args.palette = 256 /\ ret.status = "raise"

\* C9: every output pixel of to_indexed_tif is the position of the source value in the
\* value list, or len(values) when the source value is not listed or the source pixel
\* is no-data, also when the no-data value is listed; the declared no-data is len(values).
C9_IndexOrNodata ==
    (Done("to_indexed_tif") /\ ret.status = "ok")
        => /\ ret.nodata = Some(Len(args.values))
           /\ \A p \in 1..Len(args.data) :
                 LET v == args.data[p]
                     nodata_pixel == args.nodata # None /\ v = args.nodata[1]
                     listed == \E k \in 1..Len(args.values) : args.values[k] = v
                 IN  IF nodata_pixel \/ ~listed
                     THEN ret.out_data[p] = Len(args.values)
                     ELSE /\ ret.out_data[p] < Len(args.values)
                          /\ args.values[ret.out_data[p] + 1] = v

\* C10: to_indexed_tif raises for every value list of 255 or more entries.
C10_RaisesFrom255Values ==
    (Done("to_indexed_tif") /\ Len(args.values) >= 255) => ret.status = "raise"

\* a finished or aborted run of tif_to_mbtiles
MbtilesRun == args.fn = "tif_to_mbtiles"

\* C11: every tile (z, x, y) that tif_to_mbtiles writes is written once, under the key
\* (z, x, 2^z - y - 1); the flipped row lies in 0..2^z-1, as y does; and two distinct
\* written tiles never have the same key, so no written tile is overwritten.
C11_FlippedKeysDistinct ==
    MbtilesRun =>
        /\ \A i \in 1..Len(writes) :
              LET w == writes[i] IN
              /\ w.key = <<w.tile.z, w.tile.x, (2 ^ w.tile.z) - w.tile.y - 1>>
              /\ w.tile.y \in 0..((2 ^ w.tile.z) - 1)
              /\ w.key[3] \in 0..((2 ^ w.tile.z) - 1)
        /\ \A i, j \in 1..Len(writes) :
              i # j => /\ writes[i].tile # writes[j].tile
                       /\ writes[i].key # writes[j].key

\* a run that wrote two tiles of one column of zoom 1, each under the other's row
C11_Witness ==
    /\ MbtilesRun /\ pc = "done"
    /\ \E i, j \in 1..Len(writes) :
          /\ writes[i].tile.z = 1 /\ writes[j].tile.z = 1
          /\ writes[i].tile.x = writes[j].tile.x
          /\ writes[i].tile.y = 0 /\ writes[j].tile.y = 1
          /\ writes[i].key[3] = 1 /\ writes[j].key[3] = 0

\* C12: when the view has no declared nodata value, _read_tile raises for every
\* tile, whether or not the tile needs padding; stated here by what it implies: no
\* tile (an array of cells) is returned from a view without a nodata value.
C12_NoTileWithoutNodata ==
    (Done("_read_tile") /\ args.vrt.nodata = None)
        => ~(ret.status = "ok" /\ ret.data # None)

\* position of a colormap key in the ascending-sorted keys, from 0
KeyIndex(v) == Cardinality({ k \in args.colormap : k < v })

C15_KeysKeepTheirIndex ==
    (args.fn \in {"render_tif_to_tiles", "render_tif_to_mbtiles"}
        /\ pc = "done" /\ ret.status = "ok" /\ ret.written /\ cur.indexed)
        => \A i \in 1..Len(args.data) :
              LET v == args.data[i]
                  iskey == v \in args.colormap /\ Some(v) # args.nodata
                  px == ret.png.pixels[i][1]
              IN  /\ iskey => px = KeyIndex(v)
                  /\ px = Cardinality(args.colormap) => ~iskey

\* C14: tiles are processed one at a time in ascending zoom order from min_zoom to
\* max_zoom inclusive; when sampling or encoding a tile raises, the error ends the
\* run: there is no retry and no later tile is sampled, encoded or written.
C14_AbortAndAscendingZoom ==
    [][ /\ ret = Idle
        /\ (ret' # Idle) => pc' = "done"
        /\ (ret' # Idle /\ ret'.status = "ok") => zoom > args.max_zoom
        /\ zoom' \in {zoom, zoom + 1}
        /\ zoom' = zoom + 1 => (queue = <<>> /\ zoom <= args.max_zoom)
        /\ Len(queue') < Len(queue) => (queue' = Tail(queue) /\ Head(queue).z = zoom)
        /\ cur' # cur => (cur'.tile = Head(queue) /\ cur'.tile.z = zoom)
        /\ rendered' # rendered => rendered' = Append(rendered, cur.tile)
        /\ writes' # writes => (/\ Len(writes') = Len(writes) + 1
                                 /\ SubSeq(writes', 1, Len(writes)) = writes
                                 /\ writes'[Len(writes')].tile = cur.tile) ]_vars

\* a run of tif_to_mbtiles ended by the encoder on a tile of zoom 1, after tiles of
\* both zooms were written and with a tile of zoom 1 still to come
C14_Witness ==
    /\ MbtilesRun /\ pc = "done" /\ ret # Idle /\ ret.status = "raise"
    /\ ret.error = "ValueError"
    /\ zoom = 1 /\ queue # <<>>
    /\ \E i, j \in 1..Len(writes) : writes[i].tile.z = 0 /\ writes[j].tile.z = 1
    /\ rendered[Len(rendered)] = cur.tile
    /\ \A i \in 1..Len(writes) : writes[i].tile # cur.tile

====
